---- MODULE Spec2Model ----
(***************************************************************************)
(* State-machine model of the two global-illumination GUI plugins          *)
(*   src/gui/plugins/global_illumination_civct/GlobalIlluminationCiVct.cc  *)
(*   src/gui/plugins/global_illumination_vct/GlobalIlluminationVct.cc      *)
(* Every handler but PopCascade and CameraList takes serviceMutex for its   *)
(* whole body, so its body is one atomic action.  The render tick is the   *)
(* one handler of the render thread: eventFilter_lock is the point where   *)
(* it has taken the mutex and its body has not run yet, which is where the *)
(* two handlers that take no lock can still run.  The rendering engine is  *)
(* an external collaborator: kept of it are what the plugins read back     *)
(* (Started(), Enabled(), the cascade list) and the settings they push.    *)
(* The ReferenceModels component and its serializer,                       *)
(*   include/ignition/gazebo/components/ReferenceModels.hh                 *)
(* are modelled in a section and a specification of their own.             *)
(***************************************************************************)
EXTENDS Integers, Sequences, FiniteSets, TLC

VARIABLES
  variant,                  \* which plugin this instance is: "CiVct" or "Vct"
  enabled,                  \* dataPtr->enabled
  resolution,               \* dataPtr->resolution[3]
  octantCount,              \* dataPtr->octantCount[3]            (Vct only)
  bounceCount,              \* dataPtr->bounceCount
  highQuality,              \* dataPtr->highQuality
  anisotropic,              \* dataPtr->anisotropic
  conserveMemory,           \* dataPtr->conserveMemory            (Vct only)
  thinWallCounter,          \* dataPtr->thinWallCounter           (Vct only)
  debugVisMode,             \* dataPtr->debugVisMode
  bindCamera,               \* dataPtr->bindCamera                (CiVct only)
  availableCameras,         \* dataPtr->availableCameras          (CiVct only)
  cascades,                 \* dataPtr->cascades                  (CiVct only)
  initialized,              \* dataPtr->initialized
  resetVisual,              \* dataPtr->resetVisual
  visualDirty,              \* dataPtr->visualDirty
  lightingDirty,            \* dataPtr->lightingDirty
  debugVisualizationDirty,  \* dataPtr->debugVisualizationDirty
  gi,                       \* dataPtr->gi: "null" or "gi"
  scene,                    \* dataPtr->scene: "null" or "scene"
  eventFilterInstalled,     \* the render-tick hook on the main window
  giStarted,                \* what gi->Started() returns
  giEnabled,                \* what gi->Enabled() returns
  giCascades,               \* the cascade list held by the engine GI object
  giSettings,               \* the settings last pushed to the engine GI object
  serviceMutex,             \* dataPtr->serviceMutex: "none" or its holder
  fault,                    \* the process died on a null dereference
  nCalls,                   \* setter calls made so far (bounded in SpecStore)
  rendering,                \* what the rendering library offers (SpecLive)
  info,                     \* a ReferenceModelsInfo: its models
  target,                   \* the ReferenceModelsInfo that is deserialized into
  stream,                   \* the characters written by Serialize
  phase,                    \* what the stream holds: nothing yet, info, or read
  last                      \* observation of the last handler that ran

store == <<enabled, resolution, octantCount, bounceCount, highQuality,
           anisotropic, conserveMemory, thinWallCounter, debugVisMode,
           bindCamera, availableCameras, cascades>>
flags == <<visualDirty, lightingDirty, debugVisualizationDirty>>
engine == <<giStarted, giEnabled, giCascades, giSettings>>
handle == <<initialized, resetVisual, gi, scene, eventFilterInstalled,
            serviceMutex>>
referenceModels == <<info, target, stream, phase>>
aside == <<nCalls, rendering, referenceModels>>
vars == <<variant, store, flags, engine, handle, fault, nCalls, rendering,
          referenceModels, last>>

----------------------------------------------------------------------------
(* Bounds and input sets                                                   *)

MaxCascades == 3
MaxCalls == 3

DefaultResolution == 16
DefaultOctantCount == 1
DefaultBounceCount == 6
DefaultThinWallCounter == 1

Variants == {"CiVct", "Vct"}
Axes == {1, 2, 3}
ResolutionVals == {DefaultResolution, 2 * DefaultResolution}
OctantVals == {DefaultOctantCount, 2 * DefaultOctantCount}
BounceVals == {DefaultBounceCount, DefaultBounceCount + 1}
ThinWallVals == {DefaultThinWallCounter, 2 * DefaultThinWallCounter}
DebugVisModes == {"DVM_Albedo", "DVM_None"}

\* the sensors of the scene, in SensorByIndex order
SceneSensors ==
  << [name |-> "lidar", isCamera |-> FALSE],
     [name |-> "camera1", isCamera |-> TRUE],
     [name |-> "camera2", isCamera |-> TRUE] >>
CameraNames == {"camera1", "camera2", "lidar", "nosuch"}

NoValue == "-"
NoEntry == [visualDirty |-> FALSE, lightingDirty |-> FALSE,
            debugVisualizationDirty |-> FALSE, enabled |-> FALSE,
            debugVisMode |-> NoValue, gi |-> "null",
            giEnabled |-> FALSE, giStarted |-> FALSE,
            nCascades |-> 0, bindCamera |-> NoValue,
            serviceMutex |-> "none", store |-> NoValue]

\* what a handler saw when it was entered
Entry == [visualDirty |-> visualDirty, lightingDirty |-> lightingDirty,
          debugVisualizationDirty |-> debugVisualizationDirty,
          enabled |-> enabled, debugVisMode |-> debugVisMode, gi |-> gi,
          giEnabled |-> giEnabled, giStarted |-> giStarted,
          nCascades |-> Len(cascades), bindCamera |-> bindCamera,
          serviceMutex |-> serviceMutex, store |-> NoValue]

\* the observation left by a control-surface call
Called(op, arg, ret, calls) ==
  [op |-> op, arg |-> arg, ret |-> ret, branch |-> "none", signals |-> << >>,
   calls |-> calls, entry |-> Entry, prev |-> <<NoValue, NoValue>>]

\* the same, for a call that emitted Qt signals
Signalled(op, arg, signals) ==
  [op |-> op, arg |-> arg, ret |-> NoValue, branch |-> "none",
   signals |-> signals, calls |-> << >>, entry |-> Entry,
   prev |-> <<NoValue, NoValue>>]

\* the observation left by a getter: what it returned and, when the call
\* right before it was the setter of the same field, what that setter was given
Got(op, ret, setter) ==
  [op |-> op, arg |-> NoValue, ret |-> ret, branch |-> "none",
   signals |-> << >>, calls |-> << >>, entry |-> NoEntry,
   prev |-> IF last.op = setter[1] /\ (setter[2] = 0 \/ last.arg[1] = setter[2])
            THEN <<last.op, last.arg>> ELSE <<NoValue, NoValue>>]

\* the observation left by a render tick, with the whole store it found
Ticked(branch, signals, calls) ==
  [op |-> "eventFilter", arg |-> NoValue, ret |-> NoValue, branch |-> branch,
   signals |-> signals, calls |-> calls,
   entry |-> [Entry EXCEPT !.store = store],
   prev |-> <<NoValue, NoValue>>]

\* The engine GI object before the plugin pushed anything to it: every
\* setting is << >>, the engine's own default; <<v>> once v was pushed.
NotPushed ==
  [resolution |-> << >>, octantCount |-> << >>, bounceCount |-> << >>,
   highQuality |-> << >>, anisotropic |-> << >>, thinWallCounter |-> << >>,
   conserveMemory |-> << >>, debugVisualization |-> << >>, camera |-> << >>]

\* no ReferenceModels component at hand
NoReferenceModels ==
  /\ info = {}
  /\ target = {}
  /\ stream = << >>
  /\ phase = "info"

----------------------------------------------------------------------------
\* the plugin after construction and LoadConfig without elements
PluginLoaded ==
  /\ variant \in Variants
  /\ enabled = FALSE
  /\ resolution = [a \in Axes |-> DefaultResolution]
  /\ octantCount = [a \in Axes |-> DefaultOctantCount]
  /\ bounceCount = DefaultBounceCount
  /\ highQuality = TRUE
  /\ anisotropic = TRUE
  /\ conserveMemory = FALSE
  /\ thinWallCounter = DefaultThinWallCounter
  /\ debugVisMode = "DVM_None"
  /\ bindCamera = "null"
  /\ availableCameras = << >>
  /\ cascades = << >>
  /\ initialized = FALSE
  /\ resetVisual = FALSE
  /\ visualDirty = FALSE
  /\ lightingDirty = FALSE
  /\ debugVisualizationDirty = FALSE
  /\ gi = "null"
  /\ scene = "null"
  /\ eventFilterInstalled = TRUE
  /\ giStarted = FALSE
  /\ giEnabled = FALSE
  /\ giCascades = << >>
  /\ giSettings = NotPushed
  /\ serviceMutex = "none"
  /\ fault = FALSE
  /\ nCalls = 0
  /\ rendering = "absent"
  /\ last = [op |-> "LoadConfig", arg |-> NoValue, ret |-> NoValue,
             branch |-> "none", signals |-> << >>, calls |-> << >>,
             entry |-> NoEntry, prev |-> <<NoValue, NoValue>>]

Init == PluginLoaded /\ NoReferenceModels

----------------------------------------------------------------------------
(* Control surface: setters.  Both plugins have the same code for the      *)
(* setters they share.                                                     *)

Alive == ~fault

\* std::lock_guard<std::mutex> lock(serviceMutex) on the GUI thread: the
\* handler's body runs once the render thread does not hold the mutex
lock_guard == serviceMutex = "none"

SetEnabled(_enabled) ==
  /\ Alive
  /\ lock_guard
  /\ enabled' = _enabled
  /\ visualDirty' = TRUE
  /\ last' = Called("SetEnabled", _enabled, NoValue, << >>)
  /\ UNCHANGED <<variant, resolution, octantCount, bounceCount, highQuality,
                 anisotropic, conserveMemory, thinWallCounter, debugVisMode,
                 bindCamera, availableCameras, cascades, lightingDirty,
                 debugVisualizationDirty, engine, handle, fault>>

UpdateResolution(_axis, _res) ==
  /\ Alive
  /\ lock_guard
  /\ variant = "Vct"
  /\ resolution' = [resolution EXCEPT ![_axis] = _res]
  /\ visualDirty' = TRUE
  /\ last' = Called("UpdateResolution", <<_axis, _res>>, NoValue, << >>)
  /\ UNCHANGED <<variant, enabled, octantCount, bounceCount, highQuality,
                 anisotropic, conserveMemory, thinWallCounter, debugVisMode,
                 bindCamera, availableCameras, cascades, lightingDirty,
                 debugVisualizationDirty, engine, handle, fault>>

UpdateOctantCount(_axis, _count) ==
  /\ Alive
  /\ lock_guard
  /\ variant = "Vct"
  /\ octantCount' = [octantCount EXCEPT ![_axis] = _count]
  /\ visualDirty' = TRUE
  /\ last' = Called("UpdateOctantCount", <<_axis, _count>>, NoValue, << >>)
  /\ UNCHANGED <<variant, enabled, resolution, bounceCount, highQuality,
                 anisotropic, conserveMemory, thinWallCounter, debugVisMode,
                 bindCamera, availableCameras, cascades, lightingDirty,
                 debugVisualizationDirty, engine, handle, fault>>

\* SetBounceCount marking the rebuild flag, as SetEnabled does
SetBounceCountMarksVisual(_bounces) ==
  /\ Alive
  /\ lock_guard
  /\ bounceCount' = _bounces
  /\ visualDirty' = TRUE
  /\ last' = Called("SetBounceCount", _bounces, NoValue, << >>)
  /\ UNCHANGED <<variant, enabled, resolution, octantCount, highQuality,
                 anisotropic, conserveMemory, thinWallCounter, debugVisMode,
                 bindCamera, availableCameras, cascades, lightingDirty,
                 debugVisualizationDirty, engine, handle, fault>>

SetBounceCount(_bounces) ==
  /\ Alive
  /\ lock_guard
  /\ bounceCount' = _bounces
  /\ lightingDirty' = TRUE
  /\ last' = Called("SetBounceCount", _bounces, NoValue, << >>)
  /\ UNCHANGED <<variant, enabled, resolution, octantCount, highQuality,
                 anisotropic, conserveMemory, thinWallCounter, debugVisMode,
                 bindCamera, availableCameras, cascades, visualDirty,
                 debugVisualizationDirty, engine, handle, fault>>

\* the setter that takes a pending debug-visualization change for applied
SetHighQualityClearsDebug(_quality) ==
  /\ Alive
  /\ lock_guard
  /\ highQuality' = _quality
  /\ lightingDirty' = TRUE
  /\ debugVisualizationDirty' = FALSE
  /\ last' = Called("SetHighQuality", _quality, NoValue, << >>)
  /\ UNCHANGED <<variant, enabled, resolution, octantCount, bounceCount,
                 anisotropic, conserveMemory, thinWallCounter, debugVisMode,
                 bindCamera, availableCameras, cascades, visualDirty,
                 engine, handle, fault>>

SetHighQuality(_quality) ==
  /\ Alive
  /\ lock_guard
  /\ highQuality' = _quality
  /\ lightingDirty' = TRUE
  /\ last' = Called("SetHighQuality", _quality, NoValue, << >>)
  /\ UNCHANGED <<variant, enabled, resolution, octantCount, bounceCount,
                 anisotropic, conserveMemory, thinWallCounter, debugVisMode,
                 bindCamera, availableCameras, cascades, visualDirty,
                 debugVisualizationDirty, engine, handle, fault>>

SetAnisotropic(_anisotropic) ==
  /\ Alive
  /\ lock_guard
  /\ anisotropic' = _anisotropic
  /\ lightingDirty' = TRUE
  /\ last' = Called("SetAnisotropic", _anisotropic, NoValue, << >>)
  /\ UNCHANGED <<variant, enabled, resolution, octantCount, bounceCount,
                 highQuality, conserveMemory, thinWallCounter, debugVisMode,
                 bindCamera, availableCameras, cascades, visualDirty,
                 debugVisualizationDirty, engine, handle, fault>>

SetConserveMemory(_conserveMemory) ==
  /\ Alive
  /\ lock_guard
  /\ variant = "Vct"
  /\ conserveMemory' = _conserveMemory
  /\ lightingDirty' = TRUE
  /\ last' = Called("SetConserveMemory", _conserveMemory, NoValue, << >>)
  /\ UNCHANGED <<variant, enabled, resolution, octantCount, bounceCount,
                 highQuality, anisotropic, thinWallCounter, debugVisMode,
                 bindCamera, availableCameras, cascades, visualDirty,
                 debugVisualizationDirty, engine, handle, fault>>

SetThinWallCounter(_thinWallCounter) ==
  /\ Alive
  /\ lock_guard
  /\ variant = "Vct"
  /\ thinWallCounter' = _thinWallCounter
  /\ lightingDirty' = TRUE
  /\ last' = Called("SetThinWallCounter", _thinWallCounter, NoValue, << >>)
  /\ UNCHANGED <<variant, enabled, resolution, octantCount, bounceCount,
                 highQuality, anisotropic, conserveMemory, debugVisMode,
                 bindCamera, availableCameras, cascades, visualDirty,
                 debugVisualizationDirty, engine, handle, fault>>

SetDebugVisualizationMode(_visMode) ==
  /\ Alive
  /\ lock_guard
  /\ debugVisMode' = _visMode
  /\ debugVisualizationDirty' = TRUE
  /\ last' = Called("SetDebugVisualizationMode", _visMode, NoValue, << >>)
  /\ UNCHANGED <<variant, enabled, resolution, octantCount, bounceCount,
                 highQuality, anisotropic, conserveMemory, thinWallCounter,
                 bindCamera, availableCameras, cascades, visualDirty,
                 lightingDirty, engine, handle, fault>>

\* the modes UpdateDebugVisualizationMode can be handed: those of the enum
\* and an integer outside of DVM_Albedo..DVM_None
ModeArgs == DebugVisModes \cup {"out_of_range"}

\* UpdateDebugVisualizationMode hands the mode straight to the engine GI
\* object, which it does not test for null.
UpdateDebugVisualizationMode(_mode) ==
  /\ Alive
  /\ lock_guard
  /\ LET debugVisualizationMode ==
           IF _mode \in DebugVisModes THEN _mode ELSE "DVM_None"
     IN IF gi = "null"
        THEN \* gi->SetDebugVisualization on a null pointer
             /\ fault' = TRUE
             /\ last' = Called("UpdateDebugVisualizationMode", _mode, "fault",
                               << >>)
             /\ UNCHANGED giSettings
        ELSE /\ giSettings' = [giSettings EXCEPT
                                 !.debugVisualization =
                                    <<debugVisualizationMode>>]
             /\ last' = Called("UpdateDebugVisualizationMode", _mode, NoValue,
                               <<"SetDebugVisualization">>)
             /\ UNCHANGED fault
  /\ UNCHANGED <<variant, store, flags, giStarted, giEnabled, giCascades,
                 handle>>

----------------------------------------------------------------------------
(* Render tick                                                             *)

\* the load function that takes a missing engine or scene for a failure
LoadGlobalIlluminationGivesUp(_outcome) ==
  IF _outcome = "created" THEN <<"gi", "scene", TRUE, TRUE>>
  ELSE IF _outcome = "failed" THEN <<"null", scene, initialized, FALSE>>
  ELSE <<gi, scene, initialized, FALSE>>

\* the load function that leaves the tick hook in place when the creation
\* of the GI object fails
LoadGlobalIlluminationKeepsHook(_outcome) ==
  IF _outcome = "created" THEN <<"gi", "scene", TRUE, TRUE>>
  ELSE IF _outcome = "failed"
       THEN <<"null", scene, initialized, eventFilterInstalled>>
  ELSE <<gi, scene, initialized, eventFilterInstalled>>

\* What LoadGlobalIlluminationCiVct / LoadGlobalIlluminationVct can find:
\*   "unavailable"  no engine, no scene, or a scene without visuals yet
\*   "failed"       CreateGlobalIllumination* returned null
\*   "created"      the GI object was created
LoadOutcomes == {"unavailable", "failed", "created"}

\* <<gi, scene, initialized, eventFilterInstalled>> after the load attempt
LoadGlobalIllumination(_outcome) ==
  IF _outcome = "created" THEN <<"gi", "scene", TRUE, TRUE>>
  ELSE IF _outcome = "failed" THEN <<"null", scene, initialized, FALSE>>
  ELSE <<gi, scene, initialized, eventFilterInstalled>>

\* the tick that calls the load function whether initialized or not
TickOutcomesAlwaysLoad == LoadOutcomes

\* if (!this->dataPtr->initialized) LoadGlobalIllumination...(): what the
\* tick can find; "loaded" is the tick that does not call the load function
TickOutcomes == IF initialized THEN {"loaded"} ELSE LoadOutcomes

\* the observation left by a tick, with what its load attempt found
TickedWith(_outcome, _branch, _signals, _calls) ==
  [Ticked(_branch, _signals, _calls) EXCEPT !.arg = _outcome]

IfCall(_cond, _calls) == IF _cond THEN _calls ELSE << >>

\* the reflection put off while a lighting change is pending
ExternallyDisabledWhenClean ==
  ~visualDirty /\ ~lightingDirty /\ ~giEnabled /\ enabled

\* the reflection without the test for a pending rebuild
ExternallyDisabledAnyTime == ~giEnabled /\ enabled

\* the external-disable reflection of the CiVct tick
ExternallyDisabled == ~visualDirty /\ ~giEnabled /\ enabled

\* the reflection that copies what the engine reports
ReflectedFromEngine == giEnabled

\* enabled after the reflection: this->dataPtr->enabled = false
Reflected == IF ExternallyDisabled THEN FALSE ELSE enabled

\* the signal the reflection emits
EnabledChanged == IfCall(ExternallyDisabled, <<"EnabledChanged">>)

\* Dispatch with the re-light test moved in front of the rebuild test
DispatchLightingFirst ==
  IF lightingDirty THEN "relight"
  ELSE IF visualDirty THEN "rebuild"
  ELSE IF debugVisualizationDirty THEN "debug"
  ELSE "none"

\* Dispatch with the debug-only test moved in front of the re-light test
DispatchDebugFirst ==
  IF visualDirty THEN "rebuild"
  ELSE IF debugVisualizationDirty THEN "debug"
  ELSE IF lightingDirty THEN "relight"
  ELSE "none"

\* Dispatch with a last arm that is taken without a flag
DispatchDebugAlways ==
  IF visualDirty THEN "rebuild"
  ELSE IF lightingDirty THEN "relight"
  ELSE "debug"

\* Dispatch without its last arm
DispatchNoDebug ==
  IF visualDirty THEN "rebuild"
  ELSE IF lightingDirty THEN "relight"
  ELSE "none"

\* which branch of the if / else-if chain the tick takes
Dispatch ==
  IF visualDirty THEN "rebuild"
  ELSE IF lightingDirty THEN "relight"
  ELSE IF debugVisualizationDirty THEN "debug"
  ELSE "none"

\* engine calls of the CiVct rebuild branch, in program order
CiVctRebuildCalls ==
  <<"SetBounceCount", "SetHighQuality">>
  \o IfCall(giStarted, <<"SetDebugVisualization(DVM_None)">>)
  \o (IF enabled
      THEN (IF ~giStarted THEN <<"Bind", "Start">> ELSE <<"NewSettings">>)
           \o <<"Build", "SetActiveGlobalIllumination(gi)">>
      ELSE <<"SetActiveGlobalIllumination(null)">>)
  \o IfCall(giStarted \/ enabled, <<"SetDebugVisualization(debugVisMode)">>)

\* the CiVct re-light branch refreshing the lighting of a disabled engine
CiVctRelightCallsAlwaysRefresh ==
  <<"SetBounceCount", "SetHighQuality", "SetDebugVisualization(DVM_None)",
    "LightingChanged", "SetDebugVisualization(debugVisMode)">>

CiVctRelightCalls ==
  <<"SetBounceCount", "SetHighQuality">>
  \o IfCall(giEnabled, <<"SetDebugVisualization(DVM_None)", "LightingChanged",
                         "SetDebugVisualization(debugVisMode)">>)

DebugCalls == <<"SetDebugVisualization(debugVisMode)">>

\* engine settings after the CiVct rebuild branch that forgets to restore
\* the debug visualization it forced to DVM_None
CiVctRebuildSettingsNoRestore ==
  [giSettings EXCEPT
     !.bounceCount = <<bounceCount>>,
     !.highQuality = <<highQuality>>,
     !.camera = IF enabled /\ ~giStarted THEN <<bindCamera>> ELSE @,
     !.anisotropic = IF enabled THEN <<anisotropic>> ELSE @,
     !.debugVisualization = IF giStarted THEN <<"DVM_None">> ELSE @]

\* engine settings after the CiVct rebuild branch: Bind only before the
\* first Start; the anisotropic setting travels with Start and NewSettings;
\* the debug visualization is restored if the engine is started by then
CiVctRebuildSettings ==
  [giSettings EXCEPT
     !.bounceCount = <<bounceCount>>,
     !.highQuality = <<highQuality>>,
     !.camera = IF enabled /\ ~giStarted THEN <<bindCamera>> ELSE @,
     !.anisotropic = IF enabled THEN <<anisotropic>> ELSE @,
     !.debugVisualization = IF giStarted \/ enabled THEN <<debugVisMode>>
                            ELSE @]

\* the CiVct re-light branch that leaves the overlay switched off
CiVctRelightSettingsNoRestore ==
  [giSettings EXCEPT
     !.bounceCount = <<bounceCount>>,
     !.highQuality = <<highQuality>>,
     !.debugVisualization = IF giEnabled THEN <<"DVM_None">> ELSE @]

CiVctRelightSettings ==
  [giSettings EXCEPT
     !.bounceCount = <<bounceCount>>,
     !.highQuality = <<highQuality>>,
     !.debugVisualization = IF giEnabled THEN <<debugVisMode>> ELSE @]

DebugSettings == [giSettings EXCEPT !.debugVisualization = <<debugVisMode>>]

\* the re-light branch clearing the debug flag outside of if (gi->Enabled())
RelightDebugDirtyCleared == FALSE

\* debugVisualizationDirty after the re-light branch, which clears it inside
\* if (gi->Enabled()), after the stored mode was pushed
RelightDebugDirty == IF giEnabled THEN FALSE ELSE debugVisualizationDirty

\* the tick that goes on without testing the engine handle
giIsSetUnchecked(_gi) == TRUE

\* if (this->dataPtr->gi)
giIsSet(_gi) == _gi # "null"

\* The render thread has taken serviceMutex for a tick whose body has not
\* run yet.
eventFilter_lock ==
  /\ Alive
  /\ eventFilterInstalled
  /\ serviceMutex = "none"
  /\ serviceMutex' = "render"
  /\ UNCHANGED <<variant, store, flags, engine, initialized, resetVisual, gi,
                 scene, eventFilterInstalled, fault, last>>

\* The body of the tick, with the release of the mutex at its end (and with
\* its acquisition, when eventFilter_lock was not taken as a step of its own).
CiVct_eventFilter(_outcome) ==
  /\ Alive
  /\ variant = "CiVct"
  /\ eventFilterInstalled
  /\ _outcome \in TickOutcomes
  /\ LET loaded == IF _outcome = "loaded"
                   THEN <<gi, scene, initialized, eventFilterInstalled>>
                   ELSE LoadGlobalIllumination(_outcome)
         branch == Dispatch
     IN
     /\ gi' = loaded[1]
     /\ scene' = loaded[2]
     /\ initialized' = loaded[3]
     /\ eventFilterInstalled' = loaded[4]
     /\ resetVisual' = (resetVisual /\ loaded[1] = "null")
     /\ serviceMutex' = "none"
     /\ IF ~giIsSet(loaded[1])
        THEN \* "GI pointer is not set"
             /\ last' = TickedWith(_outcome, "skipped", << >>, << >>)
             /\ UNCHANGED <<enabled, flags, engine>>
        ELSE
          /\ enabled' = Reflected
          /\ CASE branch = "rebuild" ->
                    /\ giStarted' = (giStarted \/ enabled)
                    /\ giEnabled' = enabled
                    /\ giSettings' = CiVctRebuildSettings
                    /\ visualDirty' = FALSE
                    /\ lightingDirty' = FALSE
                    /\ debugVisualizationDirty' = FALSE
                    /\ last' = TickedWith(_outcome, branch, EnabledChanged,
                                          CiVctRebuildCalls)
               [] branch = "relight" ->
                    /\ giSettings' = CiVctRelightSettings
                    /\ lightingDirty' = FALSE
                    /\ debugVisualizationDirty' = RelightDebugDirty
                    /\ last' = TickedWith(_outcome, branch, EnabledChanged,
                                      CiVctRelightCalls)
                    /\ UNCHANGED <<visualDirty, giStarted, giEnabled>>
               [] branch = "debug" ->
                    /\ giSettings' = DebugSettings
                    /\ debugVisualizationDirty' = FALSE
                    /\ last' = TickedWith(_outcome, branch, EnabledChanged,
                                      DebugCalls)
                    /\ UNCHANGED <<visualDirty, lightingDirty, giStarted,
                                   giEnabled>>
               [] OTHER ->
                    /\ last' = TickedWith(_outcome, branch, EnabledChanged,
                                      << >>)
                    /\ UNCHANGED <<flags, giStarted, giEnabled, giSettings>>
          /\ UNCHANGED giCascades
  /\ UNCHANGED <<variant, resolution, octantCount, bounceCount, highQuality,
                 anisotropic, conserveMemory, thinWallCounter, debugVisMode,
                 bindCamera, availableCameras, cascades, fault>>

\* the Vct rebuild branch with Build outside of if (enabled)
VctRebuildCallsAlwaysBuild ==
  <<"SetResolution", "SetOctantCount", "SetBounceCount", "SetHighQuality",
    "SetAnisotropic", "SetThinWallCounter", "SetConserveMemory",
    "SetDebugVisualization(DVM_None)", "Build">>
  \o (IF enabled THEN <<"SetActiveGlobalIllumination(gi)">>
                 ELSE <<"SetActiveGlobalIllumination(null)">>)
  \o <<"SetDebugVisualization(debugVisMode)">>

\* engine calls of the Vct rebuild branch, in program order
VctRebuildCalls ==
  <<"SetResolution", "SetOctantCount", "SetBounceCount", "SetHighQuality",
    "SetAnisotropic", "SetThinWallCounter", "SetConserveMemory",
    "SetDebugVisualization(DVM_None)">>
  \o (IF enabled THEN <<"Build", "SetActiveGlobalIllumination(gi)">>
                 ELSE <<"SetActiveGlobalIllumination(null)">>)
  \o <<"SetDebugVisualization(debugVisMode)">>

\* the Vct re-light branch refreshing the lighting under the overlay
VctRelightCallsNoClear ==
  <<"SetBounceCount", "SetHighQuality", "SetAnisotropic",
    "SetThinWallCounter", "SetConserveMemory">>
  \o IfCall(giEnabled, <<"LightingChanged",
                         "SetDebugVisualization(debugVisMode)">>)

VctRelightCalls ==
  <<"SetBounceCount", "SetHighQuality", "SetAnisotropic",
    "SetThinWallCounter", "SetConserveMemory">>
  \o IfCall(giEnabled, <<"SetDebugVisualization(DVM_None)", "LightingChanged",
                         "SetDebugVisualization(debugVisMode)">>)

\* engine settings after the Vct rebuild branch
VctRebuildSettings ==
  [giSettings EXCEPT
     !.resolution = <<resolution>>,
     !.octantCount = <<octantCount>>,
     !.bounceCount = <<bounceCount>>,
     !.highQuality = <<highQuality>>,
     !.anisotropic = <<anisotropic>>,
     !.thinWallCounter = <<thinWallCounter>>,
     !.conserveMemory = <<conserveMemory>>,
     !.debugVisualization = <<debugVisMode>>]

VctRelightSettings ==
  [giSettings EXCEPT
     !.bounceCount = <<bounceCount>>,
     !.highQuality = <<highQuality>>,
     !.anisotropic = <<anisotropic>>,
     !.thinWallCounter = <<thinWallCounter>>,
     !.conserveMemory = <<conserveMemory>>,
     !.debugVisualization = IF giEnabled THEN <<debugVisMode>> ELSE @]

Vct_eventFilter(_outcome) ==
  /\ Alive
  /\ variant = "Vct"
  /\ eventFilterInstalled
  /\ _outcome \in TickOutcomes
  /\ LET loaded == IF _outcome = "loaded"
                   THEN <<gi, scene, initialized, eventFilterInstalled>>
                   ELSE LoadGlobalIllumination(_outcome)
         branch == Dispatch
     IN
     /\ gi' = loaded[1]
     /\ scene' = loaded[2]
     /\ initialized' = loaded[3]
     /\ eventFilterInstalled' = loaded[4]
     /\ resetVisual' = (resetVisual /\ loaded[1] = "null")
     /\ serviceMutex' = "none"
     /\ IF ~giIsSet(loaded[1])
        THEN \* "GI pointer is not set"
             /\ last' = TickedWith(_outcome, "skipped", << >>, << >>)
             /\ UNCHANGED <<flags, engine>>
        ELSE
          /\ CASE branch = "rebuild" ->
                    /\ giEnabled' = enabled
                    /\ giSettings' = VctRebuildSettings
                    /\ visualDirty' = FALSE
                    /\ lightingDirty' = FALSE
                    /\ debugVisualizationDirty' = FALSE
                    /\ last' = TickedWith(_outcome, branch, << >>,
                                          VctRebuildCalls)
               [] branch = "relight" ->
                    /\ giSettings' = VctRelightSettings
                    /\ lightingDirty' = FALSE
                    /\ debugVisualizationDirty' = RelightDebugDirty
                    /\ last' = TickedWith(_outcome, branch, << >>,
                                          VctRelightCalls)
                    /\ UNCHANGED <<visualDirty, giEnabled>>
               [] branch = "debug" ->
                    /\ giSettings' = DebugSettings
                    /\ debugVisualizationDirty' = FALSE
                    /\ last' = TickedWith(_outcome, branch, << >>, DebugCalls)
                    /\ UNCHANGED <<visualDirty, lightingDirty, giEnabled>>
               [] OTHER ->
                    /\ last' = TickedWith(_outcome, branch, << >>, << >>)
                    /\ UNCHANGED <<flags, giEnabled, giSettings>>
          /\ UNCHANGED <<giStarted, giCascades>>
  /\ UNCHANGED <<variant, store, fault>>

\* Another GI solution of the scene is made the active one: the engine
\* stops reporting this one as enabled.
ExternalDisable ==
  /\ Alive
  /\ lock_guard
  /\ gi # "null"
  /\ giEnabled
  /\ giEnabled' = FALSE
  /\ last' = Called("ExternalDisable", NoValue, NoValue, << >>)
  /\ UNCHANGED <<variant, store, flags, giStarted, giCascades, giSettings,
                 handle, fault>>

----------------------------------------------------------------------------
(* Cascades (CiVct)                                                        *)

\* half-extent of a cascade created without a reference cascade
DefaultAreaHalfSize == 5

\* rendering::GlobalIlluminationCiVct::AddCascade(ref): the cascade the
\* engine creates; with a reference it takes the reference's settings and
\* doubles its half-extent
gi_AddCascade(_ref) ==
  IF _ref = 0
  THEN [areaHalfSize |-> [a \in Axes |-> DefaultAreaHalfSize],
        thinWallCounter |-> 0]
  ELSE [areaHalfSize |-> [a \in Axes |-> 2 * giCascades[_ref].areaHalfSize[a]],
        thinWallCounter |-> giCascades[_ref].thinWallCounter]

\* AddCascadeRef taking the first cascade of the registry, not the last
AddCascadeRefFront ==
  IF cascades # << >> THEN cascades[1].cascade ELSE 0

\* the reference cascade AddCascade hands to the engine: the index of the
\* engine cascade that cascades.back() wraps, 0 for nullptr
AddCascadeRef ==
  IF cascades # << >> THEN cascades[Len(cascades)].cascade ELSE 0

AddCascade ==
  /\ Alive
  /\ lock_guard
  /\ variant = "CiVct"
  /\ Len(cascades) < MaxCascades
  /\ IF gi = "null"
     THEN \* gi->AddCascade on a null pointer
          /\ fault' = TRUE
          /\ last' = Called("AddCascade", 0, "fault", << >>)
          /\ UNCHANGED <<cascades, giCascades>>
     ELSE LET ref == AddCascadeRef
              cascadeRendering == gi_AddCascade(ref)
              seeded == IF ref = 0
                        THEN [cascadeRendering EXCEPT
                                !.thinWallCounter = DefaultThinWallCounter]
                        ELSE cascadeRendering
          IN /\ giCascades' = Append(giCascades, seeded)
             /\ cascades' = Append(cascades, [cascade |-> Len(giCascades) + 1])
             /\ last' = Called("AddCascade", ref, "cascade", <<"AddCascade">>)
             /\ UNCHANGED fault
  /\ UNCHANGED <<variant, enabled, resolution, octantCount, bounceCount,
                 highQuality, anisotropic, conserveMemory, thinWallCounter,
                 debugVisMode, bindCamera, availableCameras, flags,
                 giStarted, giEnabled, giSettings, handle>>

\* PopCascade takes no lock: run while the render thread is inside a tick,
\* its gi->PopCascade() is a data race on the engine object.  The outcomes
\* kept are the call going through and the process dying.
PopCascadeOutcomes ==
  IF serviceMutex = "render" THEN {"popped", "fault"} ELSE {"popped"}

\* PopCascade without the gi->PopCascade() call
PopCascadeRegistryOnly ==
  /\ Alive
  /\ variant = "CiVct"
  /\ IF cascades # << >>
     THEN \E outcome \in PopCascadeOutcomes :
            IF outcome = "popped"
            THEN /\ cascades' = SubSeq(cascades, 1, Len(cascades) - 1)
                 /\ last' = Called("PopCascade", NoValue, NoValue, << >>)
                 /\ UNCHANGED <<giCascades, fault>>
            ELSE /\ fault' = TRUE
                 /\ last' = Called("PopCascade", NoValue, "fault", << >>)
                 /\ UNCHANGED <<cascades, giCascades>>
     ELSE /\ last' = Called("PopCascade", NoValue, NoValue, << >>)
          /\ UNCHANGED <<cascades, giCascades, fault>>
  /\ UNCHANGED <<variant, enabled, resolution, octantCount, bounceCount,
                 highQuality, anisotropic, conserveMemory, thinWallCounter,
                 debugVisMode, bindCamera, availableCameras, flags,
                 giStarted, giEnabled, giSettings, handle>>

PopCascade ==
  /\ Alive
  /\ variant = "CiVct"
  /\ IF cascades # << >>
     THEN \E outcome \in PopCascadeOutcomes :
            IF outcome = "popped"
            THEN /\ cascades' = SubSeq(cascades, 1, Len(cascades) - 1)
                 /\ giCascades' = SubSeq(giCascades, 1, Len(giCascades) - 1)
                 /\ last' = Called("PopCascade", NoValue, NoValue,
                                   <<"PopCascade">>)
                 /\ UNCHANGED fault
            ELSE /\ fault' = TRUE
                 /\ last' = Called("PopCascade", NoValue, "fault",
                                   <<"PopCascade">>)
                 /\ UNCHANGED <<cascades, giCascades>>
     ELSE /\ last' = Called("PopCascade", NoValue, NoValue, << >>)
          /\ UNCHANGED <<cascades, giCascades, fault>>
  /\ UNCHANGED <<variant, enabled, resolution, octantCount, bounceCount,
                 highQuality, anisotropic, conserveMemory, thinWallCounter,
                 debugVisMode, bindCamera, availableCameras, flags,
                 giStarted, giEnabled, giSettings, handle>>

----------------------------------------------------------------------------
(* Cameras (CiVct)                                                         *)

MaxRefreshes == 1

\* scene->SensorByName, then dynamic_pointer_cast<rendering::Camera>
SensorAsCamera(_name) ==
  IF \E i \in DOMAIN SceneSensors :
       SceneSensors[i].name = _name /\ SceneSensors[i].isCamera
  THEN _name ELSE "null"

OnCamareBind(_cameraName) ==
  /\ Alive
  /\ lock_guard
  /\ variant = "CiVct"
  /\ IF scene = "null"
     THEN \* scene->SensorByName on a null pointer
          /\ fault' = TRUE
          /\ last' = Called("OnCamareBind", _cameraName, "fault", << >>)
          /\ UNCHANGED bindCamera
     ELSE LET asCamera == SensorAsCamera(_cameraName)
          IN IF asCamera # "null"
             THEN /\ bindCamera' = asCamera
                  /\ last' = Signalled("OnCamareBind", _cameraName, << >>)
                  /\ UNCHANGED fault
             ELSE /\ last' = Signalled("OnCamareBind", _cameraName,
                                       <<"CameraListChanged">>)
                  /\ UNCHANGED <<bindCamera, fault>>
  /\ UNCHANGED <<variant, enabled, resolution, octantCount, bounceCount,
                 highQuality, anisotropic, conserveMemory, thinWallCounter,
                 debugVisMode, availableCameras, cascades, flags, engine,
                 handle>>

\* the loop of OnRefreshCameras from sensor _i on: <<availableCameras,
\* bindCamera>> after it
RECURSIVE RefreshFrom(_, _, _)
RefreshFrom(_i, _available, _bind) ==
  IF _i > Len(SceneSensors) THEN <<_available, _bind>>
  ELSE IF SceneSensors[_i].isCamera
       THEN RefreshFrom(_i + 1, Append(_available, SceneSensors[_i].name),
                        IF _bind = "null" THEN SceneSensors[_i].name
                        ELSE _bind)
       ELSE RefreshFrom(_i + 1, _available, _bind)

NumCameras == Cardinality({i \in DOMAIN SceneSensors : SceneSensors[i].isCamera})

OnRefreshCameras ==
  /\ Alive
  /\ lock_guard
  /\ variant = "CiVct"
  /\ Len(availableCameras) < MaxRefreshes * NumCameras
  /\ IF scene = "null"
     THEN \* scene->SensorCount on a null pointer
          /\ fault' = TRUE
          /\ last' = Called("OnRefreshCameras", NoValue, "fault", << >>)
          /\ UNCHANGED <<availableCameras, bindCamera>>
     ELSE LET refreshed == RefreshFrom(1, availableCameras, bindCamera)
          IN /\ availableCameras' = refreshed[1]
             /\ bindCamera' = refreshed[2]
             /\ last' = Signalled("OnRefreshCameras", NoValue,
                                  <<"CameraListChanged">>)
             /\ UNCHANGED fault
  /\ UNCHANGED <<variant, enabled, resolution, octantCount, bounceCount,
                 highQuality, anisotropic, conserveMemory, thinWallCounter,
                 debugVisMode, cascades, flags, engine, handle>>

\* CameraList takes no lock either; it only reads availableCameras, which
\* the render thread never touches.
CameraList ==
  /\ Alive
  /\ variant = "CiVct"
  /\ last' = Called("CameraList", NoValue, availableCameras, << >>)
  /\ UNCHANGED <<variant, store, flags, engine, handle, fault>>

----------------------------------------------------------------------------
(* Control surface: getters                                                *)

Enabled == enabled
ResolutionX == resolution[1]
\* ResolutionY reading the X axis
ResolutionYCopyPaste == resolution[1]

ResolutionY == resolution[2]
ResolutionZ == resolution[3]
OctantCountX == octantCount[1]
OctantCountY == octantCount[2]
OctantCountZ == octantCount[3]
BounceCount == bounceCount
HighQuality == highQuality
Anisotropic == anisotropic
ConserveMemory == conserveMemory
ThinWallCounter == thinWallCounter
DebugVisualizationMode == debugVisMode

SharedGetters == {"Enabled", "BounceCount", "HighQuality", "Anisotropic",
                  "DebugVisualizationMode"}
VctGetters == {"ResolutionX", "ResolutionY", "ResolutionZ", "OctantCountX",
               "OctantCountY", "OctantCountZ", "ConserveMemory",
               "ThinWallCounter"}

Return(_getter) ==
  CASE _getter = "Enabled" -> Enabled
    [] _getter = "ResolutionX" -> ResolutionX
    [] _getter = "ResolutionY" -> ResolutionY
    [] _getter = "ResolutionZ" -> ResolutionZ
    [] _getter = "OctantCountX" -> OctantCountX
    [] _getter = "OctantCountY" -> OctantCountY
    [] _getter = "OctantCountZ" -> OctantCountZ
    [] _getter = "BounceCount" -> BounceCount
    [] _getter = "HighQuality" -> HighQuality
    [] _getter = "Anisotropic" -> Anisotropic
    [] _getter = "ConserveMemory" -> ConserveMemory
    [] _getter = "ThinWallCounter" -> ThinWallCounter
    [] _getter = "DebugVisualizationMode" -> DebugVisualizationMode

\* the setter that writes the field a getter reads: <<name, axis>>, axis 0
\* for a setter without an axis
SetterOf(_getter) ==
  CASE _getter = "Enabled" -> <<"SetEnabled", 0>>
    [] _getter = "ResolutionX" -> <<"UpdateResolution", 1>>
    [] _getter = "ResolutionY" -> <<"UpdateResolution", 2>>
    [] _getter = "ResolutionZ" -> <<"UpdateResolution", 3>>
    [] _getter = "OctantCountX" -> <<"UpdateOctantCount", 1>>
    [] _getter = "OctantCountY" -> <<"UpdateOctantCount", 2>>
    [] _getter = "OctantCountZ" -> <<"UpdateOctantCount", 3>>
    [] _getter = "BounceCount" -> <<"SetBounceCount", 0>>
    [] _getter = "HighQuality" -> <<"SetHighQuality", 0>>
    [] _getter = "Anisotropic" -> <<"SetAnisotropic", 0>>
    [] _getter = "ConserveMemory" -> <<"SetConserveMemory", 0>>
    [] _getter = "ThinWallCounter" -> <<"SetThinWallCounter", 0>>
    [] _getter = "DebugVisualizationMode" -> <<"SetDebugVisualizationMode", 0>>

Getter(_getter) ==
  /\ Alive
  /\ lock_guard
  /\ _getter \in VctGetters => variant = "Vct"
  /\ last' = Got(_getter, Return(_getter), SetterOf(_getter))
  /\ UNCHANGED <<variant, store, flags, engine, handle, fault>>

----------------------------------------------------------------------------
(* The reconciliation core: every setter, the cascade and camera           *)
(* operations, the render ticks and the external disable.  The settings    *)
(* the tick only forwards to the engine are written with their default     *)
(* value here; SpecStore below varies them.                                *)
Next ==
  \/ \E b \in BOOLEAN : SetEnabled(b) /\ UNCHANGED aside
  \/ \E a \in Axes : UpdateResolution(a, DefaultResolution) /\ UNCHANGED aside
  \/ \E a \in Axes :
       UpdateOctantCount(a, DefaultOctantCount) /\ UNCHANGED aside
  \/ SetBounceCount(DefaultBounceCount) /\ UNCHANGED aside
  \/ SetHighQuality(TRUE) /\ UNCHANGED aside
  \/ SetAnisotropic(TRUE) /\ UNCHANGED aside
  \/ SetConserveMemory(FALSE) /\ UNCHANGED aside
  \/ SetThinWallCounter(DefaultThinWallCounter) /\ UNCHANGED aside
  \/ \E m \in DebugVisModes : SetDebugVisualizationMode(m) /\ UNCHANGED aside
  \/ \E m \in ModeArgs : UpdateDebugVisualizationMode(m) /\ UNCHANGED aside
  \/ eventFilter_lock /\ UNCHANGED aside
  \/ \E o \in LoadOutcomes \cup {"loaded"} :
       CiVct_eventFilter(o) /\ UNCHANGED aside
  \/ \E o \in LoadOutcomes \cup {"loaded"} :
       Vct_eventFilter(o) /\ UNCHANGED aside
  \/ ExternalDisable /\ UNCHANGED aside
  \/ AddCascade /\ UNCHANGED aside
  \/ PopCascade /\ UNCHANGED aside
  \/ \E c \in CameraNames : OnCamareBind(c) /\ UNCHANGED aside
  \/ OnRefreshCameras /\ UNCHANGED aside
  \/ CameraList /\ UNCHANGED aside

Spec == Init /\ [][Next]_vars

\* one more of the at most MaxCalls setter calls of a run
Counted ==
  /\ nCalls < MaxCalls
  /\ nCalls' = nCalls + 1
  /\ UNCHANGED <<rendering, referenceModels>>

(* The configuration store: runs of at most MaxCalls setter calls with     *)
(* varying values, with every getter and the render ticks in between.      *)
NextStore ==
  \/ \E b \in BOOLEAN : Counted /\ SetEnabled(b)
  \/ \E a \in Axes, r \in ResolutionVals : Counted /\ UpdateResolution(a, r)
  \/ \E a \in Axes, c \in OctantVals : Counted /\ UpdateOctantCount(a, c)
  \/ \E n \in BounceVals : Counted /\ SetBounceCount(n)
  \/ \E b \in BOOLEAN : Counted /\ SetHighQuality(b)
  \/ \E b \in BOOLEAN : Counted /\ SetAnisotropic(b)
  \/ \E b \in BOOLEAN : Counted /\ SetConserveMemory(b)
  \/ \E t \in ThinWallVals : Counted /\ SetThinWallCounter(t)
  \/ \E m \in DebugVisModes : Counted /\ SetDebugVisualizationMode(m)
  \/ \E g \in SharedGetters \cup VctGetters : Getter(g) /\ UNCHANGED aside
  \/ \E o \in LoadOutcomes \cup {"loaded"} :
       CiVct_eventFilter(o) /\ UNCHANGED aside
  \/ \E o \in LoadOutcomes \cup {"loaded"} :
       Vct_eventFilter(o) /\ UNCHANGED aside

SpecStore == Init /\ [][NextStore]_vars

(* Discovery of the rendering engine.  What loadedEngines(), SceneByIndex   *)
(* and CreateGlobalIllumination* return is the state of the rendering      *)
(* library: "absent" (no engine, no scene, or a scene that is not          *)
(* initialized or has no visual yet), "ready" (the GI object can be        *)
(* created) and "unsupported" (the scene is there and returns a null GI    *)
(* object).  A scene comes up and can go away again; a scene that cannot   *)
(* create the GI object stays that way.                                    *)
RenderingChanges(_to) ==
  /\ Alive
  /\ \/ rendering = "absent" /\ _to \in {"ready", "unsupported"}
     \/ rendering = "ready" /\ _to = "absent"
  /\ rendering' = _to
  /\ UNCHANGED <<variant, store, flags, engine, handle, fault, nCalls,
                 referenceModels, last>>

\* what the load function of a tick finds in that state
Discovery ==
  CASE rendering = "absent" -> "unavailable"
    [] rendering = "ready" -> "created"
    [] rendering = "unsupported" -> "failed"

\* a render tick of either plugin, delivered by the main window
Tick ==
  \E o \in {Discovery, "loaded"} :
    (CiVct_eventFilter(o) \/ Vct_eventFilter(o)) /\ UNCHANGED aside

NextLive ==
  \/ \E b \in BOOLEAN : SetEnabled(b) /\ UNCHANGED aside
  \/ SetBounceCount(DefaultBounceCount) /\ UNCHANGED aside
  \/ \E m \in DebugVisModes : SetDebugVisualizationMode(m) /\ UNCHANGED aside
  \/ ExternalDisable /\ UNCHANGED aside
  \/ \E r \in {"absent", "ready", "unsupported"} : RenderingChanges(r)
  \/ Tick

\* the main window delivers render ticks for as long as the hook is installed
SpecLive == Init /\ [][NextLive]_vars /\ WF_vars(Tick)

(* The loaded configuration.  LoadConfig of the CiVct plugin reads         *)
(* <enabled>, <highQuality>, <anisotropic>, <resolution>, <bounceCount>    *)
(* and <debugVisMode> into the settings and installs the tick hook; it     *)
(* sets no dirty flag.  LoadConfig of the Vct plugin reads nothing.  An    *)
(* element that is absent leaves the default, which is one of the values.  *)
ConfigValues ==
  [enabled : BOOLEAN, highQuality : BOOLEAN, anisotropic : BOOLEAN,
   resolution : ResolutionVals, bounceCount : BounceVals,
   debugVisMode : DebugVisModes]

\* the configuration without any element
NoConfig ==
  [enabled |-> FALSE, highQuality |-> TRUE, anisotropic |-> TRUE,
   resolution |-> DefaultResolution, bounceCount |-> DefaultBounceCount,
   debugVisMode |-> "DVM_None"]

\* the state LoadConfig(_pluginElem) leaves
LoadConfig(_pluginElem) ==
  LET read == IF variant = "CiVct" THEN _pluginElem ELSE NoConfig
  IN /\ enabled = read.enabled
     /\ highQuality = read.highQuality
     /\ anisotropic = read.anisotropic
     /\ resolution = [a \in Axes |-> read.resolution]
     /\ bounceCount = read.bounceCount
     /\ debugVisMode = read.debugVisMode
     /\ octantCount = [a \in Axes |-> DefaultOctantCount]
     /\ conserveMemory = FALSE
     /\ thinWallCounter = DefaultThinWallCounter
     /\ bindCamera = "null"
     /\ availableCameras = << >>
     /\ cascades = << >>
     /\ initialized = FALSE
     /\ resetVisual = FALSE
     /\ visualDirty = FALSE
     /\ lightingDirty = FALSE
     /\ debugVisualizationDirty = FALSE
     /\ gi = "null"
     /\ scene = "null"
     /\ eventFilterInstalled = TRUE
     /\ giStarted = FALSE
     /\ giEnabled = FALSE
     /\ giCascades = << >>
     /\ giSettings = NotPushed
     /\ serviceMutex = "none"
     /\ fault = FALSE
     /\ nCalls = 0
     /\ rendering = "absent"
     /\ NoReferenceModels
     /\ last = [op |-> "LoadConfig", arg |-> NoValue, ret |-> NoValue,
                branch |-> "none", signals |-> << >>, calls |-> << >>,
                entry |-> NoEntry, prev |-> <<NoValue, NoValue>>]

InitConfig ==
  /\ variant \in Variants
  /\ \E pluginElem \in ConfigValues : LoadConfig(pluginElem)

\* a configured plugin that is left alone: no setter is called, the
\* rendering library comes up and the main window delivers its ticks
NextConfig ==
  \/ \E r \in {"absent", "ready", "unsupported"} : RenderingChanges(r)
  \/ Tick

SpecConfig == InitConfig /\ [][NextConfig]_vars /\ WF_vars(Tick)

----------------------------------------------------------------------------
(* The ReferenceModels component: include/.../components/ReferenceModels.hh *)
(* A ReferenceModelsInfo holds a std::set<Entity>; the serializer writes   *)
(* every model in decimal followed by a blank and reads models back until  *)
(* an extraction fails.  A stream is a sequence of characters.             *)

\* the model entities of the runs: one, two and three digits, and zero
Entities == {0, 1, 10, 101}

Digits == <<"0", "1", "2", "3", "4", "5", "6", "7", "8", "9">>

IsDigit(_c) == \E d \in DOMAIN Digits : Digits[d] = _c

DigitValue(_c) == (CHOOSE d \in DOMAIN Digits : Digits[d] = _c) - 1

\* _out << model, for an Entity (uint64_t)
RECURSIVE Insert(_)
Insert(_model) ==
  IF _model < 10 THEN <<Digits[_model + 1]>>
  ELSE Insert(_model \div 10) \o <<Digits[(_model % 10) + 1]>>

\* the first model of the iteration over a std::set
Begin(_models) == CHOOSE m \in _models : \A k \in _models : m <= k

\* for (const auto &model : _info.models) _out << model << " ";
RECURSIVE Serialize(_, _)
Serialize(_out, _info) ==
  IF _info = {} THEN _out
  ELSE Serialize(_out \o Insert(Begin(_info)) \o <<" ">>,
                 _info \ {Begin(_info)})

\* the blanks in front of a formatted extraction are skipped
RECURSIVE SkipWhitespace(_)
SkipWhitespace(_in) ==
  IF _in # << >> /\ Head(_in) = " " THEN SkipWhitespace(Tail(_in)) ELSE _in

\* the digits of a number, accumulated: <<value, rest of the stream>>
RECURSIVE ExtractDigits(_, _)
ExtractDigits(_in, _value) ==
  IF _in # << >> /\ IsDigit(Head(_in))
  THEN ExtractDigits(Tail(_in), 10 * _value + DigitValue(Head(_in)))
  ELSE <<_value, _in>>

\* _in >> model: <<whether it succeeded, model, rest of the stream>>
Extract(_in) ==
  LET rest == SkipWhitespace(_in)
  IN IF rest = << >> \/ ~IsDigit(Head(rest))
     THEN <<FALSE, 0, rest>>
     ELSE LET read == ExtractDigits(rest, 0)
          IN <<TRUE, read[1], read[2]>>

\* while (_in >> model) _info.AddModel(model);
RECURSIVE WhileExtract(_, _)
WhileExtract(_in, _models) ==
  LET extracted == Extract(_in)
  IN IF extracted[1]
     THEN WhileExtract(extracted[3], _models \cup {extracted[2]})
     ELSE _models

\* Deserialize without _info.models.clear()
DeserializeNoClear(_in, _info) == WhileExtract(_in, _info)

\* the models of _info after Deserialize(_in, _info)
Deserialize(_in, _info) == WhileExtract(_in, {})

plugin == <<variant, store, flags, engine, handle, fault, nCalls, rendering,
            last>>

\* info.AddModel(_model): this->models.insert(_model)
AddModel(_model) ==
  /\ phase = "info"
  /\ info' = info \cup {_model}
  /\ UNCHANGED <<target, stream, phase, plugin>>

\* info.RemoveModel(_model): this->models.erase(_model)
RemoveModel(_model) ==
  /\ phase = "info"
  /\ info' = info \ {_model}
  /\ UNCHANGED <<target, stream, phase, plugin>>

\* Serialize(stream, info) on an empty stream
SerializeInfo ==
  /\ phase = "info"
  /\ stream' = Serialize(<< >>, info)
  /\ phase' = "serialized"
  /\ UNCHANGED <<info, target, plugin>>

\* Deserialize(stream, target)
DeserializeTarget ==
  /\ phase = "serialized"
  /\ target' = Deserialize(stream, target)
  /\ phase' = "deserialized"
  /\ UNCHANGED <<info, stream, plugin>>

\* an info and a target with any contents
InitReferenceModels ==
  /\ PluginLoaded
  /\ info \in SUBSET Entities
  /\ target \in SUBSET Entities
  /\ stream = << >>
  /\ phase = "info"

NextReferenceModels ==
  \/ \E m \in Entities : AddModel(m)
  \/ \E m \in Entities : RemoveModel(m)
  \/ SerializeInfo
  \/ DeserializeTarget

SpecReferenceModels == InitReferenceModels /\ [][NextReferenceModels]_vars

----------------------------------------------------------------------------
(* Properties                                                              *)

\* a render tick has just run with the engine handle present
Reconciled == last.op = "eventFilter" /\ last.branch # "skipped"

Made(_call) == \E i \in DOMAIN last.calls : last.calls[i] = _call

\* C1: a render tick that runs with the engine handle present and finds
\* visualDirty set takes the rebuild branch and ends with visualDirty,
\* lightingDirty and debugVisualizationDirty all false, whatever the other
\* two flags were on entry.
FlagPriority ==
  (Reconciled /\ last.entry.visualDirty)
    => /\ last.branch = "rebuild"
       /\ ~visualDirty
       /\ ~lightingDirty
       /\ ~debugVisualizationDirty

\* a rebuild tick that found all three flags set
FlagPriorityWitness ==
  /\ Reconciled
  /\ last.branch = "rebuild"
  /\ last.entry.visualDirty
  /\ last.entry.lightingDirty
  /\ last.entry.debugVisualizationDirty

\* C2: a render tick runs at most one of the three branches, in the
\* priority rebuild > re-light > debug-only: it rebuilds only when visualDirty
\* was set, re-lights only when visualDirty was clear and lightingDirty set,
\* applies the debug mode alone only when both were clear, and makes the
\* engine calls of no other branch than the one it took.
BranchPriority ==
  Reconciled =>
    /\ last.branch \in {"rebuild", "relight", "debug", "none"}
    /\ last.branch = "rebuild" <=> last.entry.visualDirty
    /\ last.branch = "relight"
         <=> (~last.entry.visualDirty /\ last.entry.lightingDirty)
    /\ last.branch = "debug"
         <=> /\ ~last.entry.visualDirty
             /\ ~last.entry.lightingDirty
             /\ last.entry.debugVisualizationDirty
    /\ (Made("Build") \/ Made("SetActiveGlobalIllumination(null)"))
         => last.branch = "rebuild"
    /\ Made("LightingChanged") => last.branch = "relight"
    /\ last.branch = "debug" => last.calls = DebugCalls
    /\ last.branch = "none" => last.calls = << >>

\* a re-light tick that found a debug-mode change pending as well and
\* refreshed the lighting
BranchPriorityWitness ==
  /\ Reconciled
  /\ last.branch = "relight"
  /\ last.entry.debugVisualizationDirty
  /\ Made("LightingChanged")

\* C3: SetDebugVisualizationMode(v) with the stored mode already equal to v
\* and debugVisualizationDirty clear leaves debugVisualizationDirty clear.
IdempotentDebugModeWrite ==
  (/\ last.op = "SetDebugVisualizationMode"
   /\ last.arg = last.entry.debugVisMode
   /\ ~last.entry.debugVisualizationDirty)
    => ~debugVisualizationDirty

\* the instance could not be activated when the last call was entered:
\* no cascade, or no bound camera
NotActivatable ==
  last.entry.nCascades = 0 \/ last.entry.bindCamera = "null"

\* C4: SetEnabled(true) returns false and leaves enabled false whenever the
\* cascade count is 0 or the bound camera is null; otherwise it returns true
\* and leaves enabled true.
ActivationGating ==
  (variant = "CiVct" /\ last.op = "SetEnabled" /\ last.arg = TRUE)
    => IF NotActivatable
       THEN ~enabled /\ last.ret = "false"
       ELSE enabled /\ last.ret = "true"

\* C5: a SetEnabled(true) made while the instance is not activatable changes
\* nothing: enabled, the other settings, the cascade list and the three dirty
\* flags are what they were when the call was entered.
RejectedActivationMutatesNothing ==
  (/\ variant = "CiVct"
   /\ last.op = "SetEnabled"
   /\ last.arg = TRUE
   /\ NotActivatable)
    => /\ enabled = last.entry.enabled
       /\ visualDirty = last.entry.visualDirty
       /\ lightingDirty = last.entry.lightingDirty
       /\ debugVisualizationDirty = last.entry.debugVisualizationDirty
       /\ debugVisMode = last.entry.debugVisMode
       /\ bindCamera = last.entry.bindCamera
       /\ Len(cascades) = last.entry.nCascades

\* C6: after every AddCascade and PopCascade made while the engine has not
\* started, the registry holds as many cascades as the engine's list, and
\* entry k of the registry wraps entry k of the engine's list.
CascadeCardinality ==
  (last.op \in {"AddCascade", "PopCascade"} /\ ~last.entry.giStarted)
    => /\ Len(cascades) = Len(giCascades)
       /\ \A k \in DOMAIN cascades : cascades[k].cascade = k

\* a PopCascade that took the last of several cascades off both lists
CascadeCardinalityWitness ==
  /\ last.op = "PopCascade"
  /\ ~last.entry.giStarted
  /\ last.entry.nCascades = 2
  /\ Len(cascades) = 1
  /\ Len(giCascades) = 1

\* C7: once the engine reports Started(), AddCascade and PopCascade are
\* no-ops: the registry and the engine's list are as they were, and
\* AddCascade returns null.
StartedEngineImmutability ==
  (last.op \in {"AddCascade", "PopCascade"} /\ last.entry.giStarted)
    => /\ Len(cascades) = last.entry.nCascades
       /\ Len(giCascades) = last.entry.nCascades
       /\ last.op = "AddCascade" => last.ret = "null"

ExternalDisableReflection ==
  Reconciled =>
    LET reflected == /\ last.entry.enabled
                     /\ ~last.entry.visualDirty
                     /\ ~last.entry.giEnabled
    IN IF reflected
       THEN ~enabled /\ last.signals = <<"EnabledChanged">>
       ELSE enabled = last.entry.enabled /\ last.signals = << >>

\* C10: a getter called right after the setter of the same field, with no
\* tick in between, returns the value the setter was given.
NoLostUpdate ==
  last.prev[1] # NoValue
    => last.ret = IF last.prev[1] \in {"UpdateResolution", "UpdateOctantCount"}
                  THEN last.prev[2][2]
                  ELSE last.prev[2]

\* ResolutionY read right after the Y resolution was set to a value that is
\* not the default, on an instance whose engine handle is present
NoLostUpdateWitness ==
  /\ last.op = "ResolutionY"
  /\ last.prev[1] = "UpdateResolution"
  /\ last.prev[2] = <<2, 2 * DefaultResolution>>
  /\ last.ret = 2 * DefaultResolution
  /\ resolution[1] = DefaultResolution
  /\ gi # "null"
  /\ visualDirty

\* the setters of each category
LightingSetters == {"SetBounceCount", "SetHighQuality", "SetAnisotropic",
                    "SetThinWallCounter", "SetConserveMemory"}
VisualSetters == {"SetEnabled", "UpdateResolution", "UpdateOctantCount"}
DebugSetters == {"SetDebugVisualizationMode"}

\* C11: every setter leaves the dirty flag of its category set and the other
\* two flags as it found them: lightingDirty for the bounce-count,
\* high-quality, anisotropic, thin-wall-counter and conserve-memory setters,
\* visualDirty for SetEnabled and the per-axis resolution (and octant-count)
\* setters, debugVisualizationDirty for the visualization-mode setter; so no
\* setter clears a flag or sets the flag of another category.
SetterMarksItsCategory ==
  /\ last.op \in LightingSetters
       => /\ lightingDirty
          /\ visualDirty = last.entry.visualDirty
          /\ debugVisualizationDirty = last.entry.debugVisualizationDirty
  /\ last.op \in VisualSetters
       => /\ visualDirty
          /\ lightingDirty = last.entry.lightingDirty
          /\ debugVisualizationDirty = last.entry.debugVisualizationDirty
  /\ last.op \in DebugSetters
       => /\ debugVisualizationDirty
          /\ visualDirty = last.entry.visualDirty
          /\ lightingDirty = last.entry.lightingDirty

\* the bounce count set while only a debug-mode change was pending
SetterMarksItsCategoryWitness ==
  /\ last.op = "SetBounceCount"
  /\ ~last.entry.visualDirty
  /\ ~last.entry.lightingDirty
  /\ last.entry.debugVisualizationDirty
  /\ lightingDirty
  /\ ~visualDirty

\* the engine holds the stored value of a setting; of a setting the plugin
\* never pushed the engine holds its own default, which is not known here
EngineHolds(_pushed, _stored) == _pushed = << >> \/ _pushed = <<_stored>>

\* C12: whenever a tick clears lightingDirty, through the re-light branch or
\* the rebuild branch, the engine holds the stored value of every lighting
\* setting when the tick ends: bounce count, high quality and anisotropic,
\* and in the Vct plugin thin-wall counter and conserve memory as well.
NoLostLightingUpdate ==
  (Reconciled /\ last.entry.lightingDirty /\ ~lightingDirty)
    => /\ giSettings.bounceCount = <<bounceCount>>
       /\ giSettings.highQuality = <<highQuality>>
       /\ EngineHolds(giSettings.anisotropic, anisotropic)
       /\ variant = "Vct"
            => /\ giSettings.thinWallCounter = <<thinWallCounter>>
               /\ giSettings.conserveMemory = <<conserveMemory>>

\* the handlers of the control surface, all run by the GUI thread
ControlSurface ==
  LightingSetters \cup VisualSetters \cup DebugSetters
    \cup SharedGetters \cup VctGetters
    \cup {"UpdateDebugVisualizationMode", "AddCascade", "PopCascade",
          "OnCamareBind", "OnRefreshCameras", "CameraList"}

\* C13: no control-surface operation (the setters, the debug-visualization
\* mode update, AddCascade, PopCascade, camera bind and refresh) calls into
\* the engine GI object; engine calls are made by render ticks only.
EngineCallsOnlyInTick ==
  last.op \in ControlSurface => last.calls = << >>

\* C14: every control-surface operation that reads or writes the settings,
\* the flags or the cascade list holds serviceMutex while it does, so none
\* runs while the render thread is inside the locked body of a tick.
LockDiscipline ==
  last.op \in ControlSurface => last.entry.serviceMutex = "none"

ControlSurfaceNeverFaults == ~fault

\* C17: a tick entered with visualDirty set, enabled true and the engine
\* reporting Enabled() false does not reflect an external disable: enabled
\* stays true, EnabledChanged is not emitted, and the tick rebuilds and
\* activates GI.
PendingRebuildWins ==
  (/\ Reconciled
   /\ last.entry.visualDirty
   /\ last.entry.enabled
   /\ ~last.entry.giEnabled)
    => /\ enabled
       /\ last.signals = << >>
       /\ last.branch = "rebuild"
       /\ Made("Build")
       /\ Made("SetActiveGlobalIllumination(gi)")
       /\ giEnabled

\* a CiVct tick that re-activated a started engine another GI solution had
\* disabled
PendingRebuildWinsWitness ==
  /\ variant = "CiVct"
  /\ Reconciled
  /\ last.entry.visualDirty
  /\ last.entry.enabled
  /\ ~last.entry.giEnabled
  /\ last.entry.giStarted
  /\ Made("NewSettings")
  /\ giEnabled

\* C18: a rebuild tick calls Build exactly when enabled is true; with
\* enabled false it clears the scene's active GI and calls neither Start,
\* NewSettings nor Build; the re-light and debug-only branches never call
\* Build.
BuildIffEnabled ==
  Reconciled =>
    /\ last.branch = "rebuild" => (Made("Build") <=> last.entry.enabled)
    /\ (last.branch = "rebuild" /\ ~last.entry.enabled)
         => /\ Made("SetActiveGlobalIllumination(null)")
            /\ ~Made("Start")
            /\ ~Made("NewSettings")
            /\ ~Made("Build")
            /\ ~Made("SetActiveGlobalIllumination(gi)")
    /\ last.branch # "rebuild" => ~Made("Build")

\* a rebuild tick that switched an active GI off
BuildIffEnabledWitness ==
  /\ Reconciled
  /\ last.branch = "rebuild"
  /\ ~last.entry.enabled
  /\ last.entry.giEnabled
  /\ Made("SetActiveGlobalIllumination(null)")
  /\ ~giEnabled

\* the tick made both calls, every _first before every _then
Before(_first, _then) ==
  /\ Made(_first)
  /\ Made(_then)
  /\ \A i, j \in DOMAIN last.calls :
       (last.calls[i] = _first /\ last.calls[j] = _then) => i < j

DebugVisualizationAroundRebuild ==
  (Reconciled /\ last.branch = "rebuild")
    => /\ (last.entry.giStarted \/ variant = "Vct")
            => /\ Made("SetDebugVisualization(DVM_None)")
               /\ \A c \in {"Start", "NewSettings", "Build",
                            "SetActiveGlobalIllumination(gi)",
                            "SetActiveGlobalIllumination(null)"} :
                    Made(c) => Before("SetDebugVisualization(DVM_None)", c)
       /\ (giStarted \/ variant = "Vct")
            => /\ giSettings.debugVisualization = <<debugVisMode>>
               /\ last.calls[Len(last.calls)]
                    = "SetDebugVisualization(debugVisMode)"

\* a rebuild of a started CiVct engine with the albedo overlay wanted
DebugVisualizationAroundRebuildWitness ==
  /\ variant = "CiVct"
  /\ Reconciled
  /\ last.branch = "rebuild"
  /\ last.entry.giStarted
  /\ Made("NewSettings")
  /\ debugVisMode = "DVM_Albedo"
  /\ giSettings.debugVisualization = <<"DVM_Albedo">>

\* C21: a re-light tick calls LightingChanged exactly when the engine
\* reports Enabled(), and leaves lightingDirty clear either way.
RelightOnlyWhenEnabled ==
  (Reconciled /\ last.branch = "relight")
    => /\ Made("LightingChanged") <=> last.entry.giEnabled
       /\ ~lightingDirty

\* a re-light request on a disabled engine, discarded with its flag cleared
RelightOnlyWhenEnabledWitness ==
  /\ Reconciled
  /\ last.branch = "relight"
  /\ ~last.entry.giEnabled
  /\ last.entry.giStarted
  /\ ~Made("LightingChanged")
  /\ ~lightingDirty

\* what the calls of the last tick in front of call _i left as the engine's
\* debug visualization: "DVM_None", "debugVisMode" (the stored mode), or
\* "entry" when none of them set it
RECURSIVE DebugVisualizationBefore(_)
DebugVisualizationBefore(_i) ==
  IF _i <= 1 THEN "entry"
  ELSE IF last.calls[_i - 1] = "SetDebugVisualization(DVM_None)"
       THEN "DVM_None"
  ELSE IF last.calls[_i - 1] = "SetDebugVisualization(debugVisMode)"
       THEN "debugVisMode"
  ELSE DebugVisualizationBefore(_i - 1)

\* C22: in a re-light tick that calls LightingChanged, the engine's debug
\* visualization is DVM_None when the call is made and is the stored mode
\* when the tick ends.
RelightWithoutOverlay ==
  (Reconciled /\ last.branch = "relight" /\ Made("LightingChanged"))
    => /\ \A i \in DOMAIN last.calls :
            last.calls[i] = "LightingChanged"
              => DebugVisualizationBefore(i) = "DVM_None"
       /\ DebugVisualizationBefore(Len(last.calls) + 1) = "debugVisMode"
       /\ giSettings.debugVisualization = <<debugVisMode>>

\* a lighting refresh on an engine that shows the albedo overlay before and
\* after the tick
RelightWithoutOverlayWitness ==
  /\ Reconciled
  /\ last.branch = "relight"
  /\ Made("LightingChanged")
  /\ debugVisMode = "DVM_Albedo"
  /\ giSettings.debugVisualization = <<"DVM_Albedo">>
  /\ ~last.entry.debugVisualizationDirty

\* C23: a debug-only tick applies the stored mode to the engine only if the
\* engine has started; on an engine that has not started it makes no
\* SetDebugVisualization call.  Started() is an operation of the CiVct
\* engine.
DebugOnlyNeedsStartedEngine ==
  (/\ variant = "CiVct"
   /\ Reconciled
   /\ last.branch = "debug"
   /\ ~last.entry.giStarted)
    => /\ ~Made("SetDebugVisualization(debugVisMode)")
       /\ ~Made("SetDebugVisualization(DVM_None)")

\* C24: while the rendering library offers no engine, no scene or no visual,
\* every tick leaves the instance uninitialized with its tick hook in place,
\* so that discovery is retried on the next tick; and if from some tick on
\* engine and scene are available and the creation succeeds, the ticks the
\* main window keeps delivering make the instance initialized.
Discovers ==
  /\ [][(rendering = "absent" /\ ~initialized /\ eventFilterInstalled)
          => (~initialized' /\ gi' = "null" /\ eventFilterInstalled')]_vars
  /\ (<>[](rendering = "ready") => <>initialized)

DiscoversWitness ==
  /\ last.op = "eventFilter"
  /\ last.arg = "created"
  /\ rendering = "ready"
  /\ initialized
  /\ last.entry.visualDirty

\* C25: initialization happens once: initialized holds exactly when the
\* engine handle is present; an initialized instance stays initialized and
\* keeps its handle and its scene, and a tick that finds the handle present
\* does not call the load function again.
InitializedOnce ==
  /\ [](initialized <=> gi # "null")
  /\ []((last.op = "eventFilter" /\ last.entry.gi # "null")
          => last.arg = "loaded")
  /\ [][initialized => (initialized' /\ gi' = gi /\ scene' = scene)]_vars

InitializedOnceWitness ==
  /\ Reconciled
  /\ last.entry.gi # "null"
  /\ last.arg = "loaded"
  /\ initialized
  /\ gi = "gi"

\* C26: when the creation of the engine GI object returns null the tick hook
\* is withdrawn and the instance stays uninitialized without a handle; from
\* then on the hook stays withdrawn, no tick runs, no dirty flag is cleared
\* and the engine GI state is left alone.
CreationFailureIsPermanent ==
  /\ []((last.op = "eventFilter" /\ last.arg = "failed")
          => /\ ~eventFilterInstalled
             /\ ~initialized
             /\ gi = "null"
             /\ last.branch = "skipped"
             /\ last.calls = << >>)
  /\ [][~eventFilterInstalled
          => /\ ~eventFilterInstalled'
             /\ ~initialized'
             /\ gi' = "null"
             /\ visualDirty => visualDirty'
             /\ lightingDirty => lightingDirty'
             /\ debugVisualizationDirty => debugVisualizationDirty'
             /\ giSettings' = giSettings
             /\ giStarted' = giStarted
             /\ last'.op = "eventFilter"
                  => (last.op = "eventFilter" /\ last' = last)]_vars

CreationFailureIsPermanentWitness ==
  /\ last.op = "eventFilter"
  /\ last.arg = "failed"
  /\ ~eventFilterInstalled
  /\ visualDirty
  /\ debugVisualizationDirty

\* C27: a dirty flag that is set stays set until a render tick runs with the
\* engine handle present: a step that clears visualDirty, lightingDirty or
\* debugVisualizationDirty is such a tick, never a setter or another
\* control-surface call, and never a tick that found no handle.
PendingUntilTick ==
  [][(\/ visualDirty /\ ~visualDirty'
      \/ lightingDirty /\ ~lightingDirty'
      \/ debugVisualizationDirty /\ ~debugVisualizationDirty')
       => (last'.op = "eventFilter" /\ last'.branch # "skipped")]_vars

PendingUntilTickWitness ==
  /\ last.op = "SetHighQuality"
  /\ last.entry.visualDirty
  /\ last.entry.lightingDirty
  /\ last.entry.debugVisualizationDirty
  /\ visualDirty
  /\ lightingDirty
  /\ debugVisualizationDirty

\* C28: a setter takes effect entirely before or entirely after the
\* reconciliation of a tick: when a tick that ran with the handle present
\* ends, every setting a setter wrote either is held by the engine, pushed by
\* a tick that read it, or still has its dirty flag set.
SetterBeforeOrAfterTick ==
  Reconciled
    => /\ lightingDirty
            \/ /\ EngineHolds(giSettings.bounceCount, bounceCount)
               /\ EngineHolds(giSettings.highQuality, highQuality)
               /\ EngineHolds(giSettings.anisotropic, anisotropic)
               /\ EngineHolds(giSettings.thinWallCounter, thinWallCounter)
               /\ EngineHolds(giSettings.conserveMemory, conserveMemory)
       /\ visualDirty
            \/ /\ EngineHolds(giSettings.resolution, resolution)
               /\ EngineHolds(giSettings.octantCount, octantCount)

\* the step is a call of PopCascade
PopCascadeStep ==
  /\ last'.op = "PopCascade"
  /\ last.op = "PopCascade"
       => (last'.entry # last.entry \/ last'.ret # last.ret)

ReflectionDue(_entry) ==
  variant = "CiVct" /\ _entry.enabled /\ ~_entry.giEnabled

TickStep ==
  /\ last'.op = "eventFilter"
  /\ serviceMutex' = "none"
  /\ rendering' = rendering

\* C31: whenever a render tick calls Build or LightingChanged, the engine's
\* debug visualization is DVM_None at that moment: set to it by an earlier
\* call of the same tick, or already that when the tick was entered; this
\* includes the first activation of an engine that was given a debug mode
\* by an earlier debug-only tick.
NoOverlayDuringBuild ==
  [][TickStep
       => \A i \in DOMAIN last'.calls :
            last'.calls[i] \in {"Build", "LightingChanged"}
              => LET before == DebugVisualizationBefore(i)'
                 IN \/ before = "DVM_None"
                    \/ before = "debugVisMode" /\ debugVisMode = "DVM_None"
                    \/ before = "entry"
                         /\ EngineHolds(giSettings.debugVisualization,
                                        "DVM_None")]_vars

\* C32: in the CiVct plugin, when a render tick that ran with the engine
\* handle present ends, enabled implies that the engine reports Enabled():
\* the rebuild branch has made the engine's state the stored one, and
\* otherwise the reflection has taken back an activation the engine lost.
EnabledImpliesEngineEnabled ==
  (variant = "CiVct" /\ Reconciled) => (enabled => giEnabled)

\* a tick that took back the activation while re-lighting
EnabledImpliesEngineEnabledWitness ==
  /\ variant = "CiVct"
  /\ Reconciled
  /\ last.branch = "relight"
  /\ last.entry.enabled
  /\ ~last.entry.giEnabled
  /\ ~enabled
  /\ ~giEnabled

\* C33: when the loaded configuration sets enabled and no setter is called
\* afterwards, enabled stays true and, once the instance is initialized, a
\* tick activates the GI on the engine.
ConfiguredActivation ==
  /\ [][enabled => enabled']_vars
  /\ (enabled /\ <>initialized)
       => <>(initialized /\ enabled /\ giStarted /\ giEnabled)

RelightKeepsPendingDebugMode ==
  (Reconciled /\ last.branch = "relight")
    => /\ ~lightingDirty
       /\ IF last.entry.giEnabled
          THEN /\ ~debugVisualizationDirty
               /\ last.calls[Len(last.calls)]
                    = "SetDebugVisualization(debugVisMode)"
               /\ giSettings.debugVisualization = <<debugVisMode>>
          ELSE /\ debugVisualizationDirty = last.entry.debugVisualizationDirty
               /\ ~Made("SetDebugVisualization(debugVisMode)")

\* a debug-mode change still pending after a re-light of a disabled engine
RelightKeepsPendingDebugModeWitness ==
  /\ Reconciled
  /\ last.branch = "relight"
  /\ ~last.entry.giEnabled
  /\ last.entry.debugVisualizationDirty
  /\ debugVisualizationDirty
  /\ ~lightingDirty

\* the calls that set a dirty flag
FlagSetters == LightingSetters \cup VisualSetters \cup DebugSetters

TickKeepsTheStore ==
  [][TickStep
       => /\ UNCHANGED <<resolution, octantCount, bounceCount, highQuality,
                         anisotropic, conserveMemory, thinWallCounter,
                         debugVisMode, bindCamera, availableCameras,
                         cascades>>
          /\ enabled' => enabled
          /\ visualDirty' => visualDirty
          /\ lightingDirty' => lightingDirty
          /\ debugVisualizationDirty' => debugVisualizationDirty]_vars

\* a debug-only tick that took back the activation and changed nothing else
\* of the store
TickKeepsTheStoreWitness ==
  /\ variant = "CiVct"
  /\ Reconciled
  /\ last.branch = "debug"
  /\ last.signals = <<"EnabledChanged">>
  /\ last.entry.enabled
  /\ ~enabled
  /\ Len(cascades) = last.entry.nCascades
  /\ Len(cascades) > 0
  /\ debugVisMode = "DVM_Albedo"

\* C38: deserializing the serialization of an info into a target with any
\* prior contents leaves the target equal to the info:
\* Deserialize(Serialize(x)) == x.
RoundTrip ==
  phase = "deserialized"
    => /\ target = info
       /\ Deserialize(Serialize(<< >>, info), target) = info

\* three models with a common leading digit, written and read back
RoundTripWitness ==
  /\ phase = "deserialized"
  /\ info = {1, 10, 101}
  /\ target = {1, 10, 101}
  /\ stream = <<"1", " ", "1", "0", " ", "1", "0", "1", " ">>

=============================================================================
